---- MODULE Spec2Model ----
(***************************************************************************)
(* tomatl: a command-line focus/rest session timer (src/main.rs).          *)
(*                                                                         *)
(* The model follows `main` statement by statement: opening the SQLite     *)
(* store, creating the schema, parsing the command line, the one-second    *)
(* countdown loop that drives the progress bar, the desktop notification,  *)
(* `play_sound`, and `record_session`.  Every fallible call of the source  *)
(* has both of its outcomes; what `main` does with the error (`?`,         *)
(* `.unwrap()`, `if let Err`) decides where control goes next.             *)
(***************************************************************************)
EXTENDS Integers, Sequences, FiniteSets

VARIABLES
    pc,           \* position in main / play_sound
    status,       \* exit status of the process, NoStatus while it has none
    stderr,       \* set of messages written to standard error
    file_exists,  \* focus.db exists on disk
    has_table,    \* focus.db holds the `sessions` table
    rows,         \* rows of `sessions`, in insertion order
    rows0,        \* rows of `sessions` when the process started (history)
    mode,         \* args.mode.as_str()
    minutes,      \* args.minutes (f32)
    now,          \* Utc::now() captured at line 68
    clock,        \* wall clock, seconds
    total_secs,   \* (minutes * 60.0) as u64
    i,            \* number of items the range 0..total_secs has yielded
    pb_pos,       \* position of the progress bar
    pb_finished,  \* number of times the progress bar was finished
    waits,        \* number of completed thread::sleep(1 s) calls
    log           \* observable events of the run, in order (history)

vars == << pc, status, stderr, file_exists, has_table, rows, rows0, mode,
           minutes, now, clock, total_secs, i, pb_pos, pb_finished, waits, log >>

-----------------------------------------------------------------------------
(* Bounds of the model *)

\* Largest number of loop iterations followed for a saturated total_secs.
MaxTicks == 61

\* Largest number of times init_db is run on the open connection.
MaxInits == 3

\* Largest number of rows the store holds before the run starts.
MaxPreRows == 2

-----------------------------------------------------------------------------
(* Values *)

NoStatus == -1

\* std: `main` returning Ok(()) ends the process with status 0.
ExitSuccess == 0

\* std: `main` returning Err(_) ends the process with status 1.
ExitFailure == 1
\* clap: a command line that does not parse ends the process with status 2.
ExitUsage == 2
\* std: a panic on the main thread ends the process with status 101.
ExitPanic == 101

\* Mode::as_str
Modes == {"focus", "rest"}

\* f32 values.  A finite value is the rational num/den (den > 0).
Fin(p, q) == [cls |-> "fin", num |-> p, den |-> q]
NaN    == [cls |-> "nan",  num |-> 0, den |-> 1]
PosInf == [cls |-> "inf",  num |-> 1, den |-> 1]
NegInf == [cls |-> "ninf", num |-> -1, den |-> 1]

\* The `minutes` values the command line supplies in the model:
\* -5, 0, 0.5 s, 1 s, 1.5 s, 2.5 s, 3 s, 59.7 s and 1 minute, and the three
\* non-finite values f32::from_str accepts.  For each finite value the f32
\* product minutes * 60.0 has the same integer part as the rational product.
MinutesInputs ==
    { Fin(-5, 1), Fin(0, 1), Fin(1, 120), Fin(1, 60), Fin(1, 40), Fin(1, 24),
      Fin(1, 20), Fin(199, 200), Fin(1, 1), NaN, PosInf, NegInf }

\* minutes * 60.0
Mul60(m) ==
    IF m.cls = "fin" THEN Fin(m.num * 60, m.den) ELSE m

\* A cast that rounds to the nearest integer instead of truncating.
AsU64Mut(x) ==
    CASE x.cls = "nan"  -> [sat |-> FALSE, n |-> 0]
      [] x.cls = "ninf" -> [sat |-> FALSE, n |-> 0]
      [] x.cls = "inf"  -> [sat |-> TRUE,  n |-> 0]
      [] x.cls = "fin"  -> [sat |-> FALSE,
                            n |-> IF x.num <= 0 THEN 0
                                  ELSE (2 * x.num + x.den) \div (2 * x.den)]

\* `x as u64`: truncation toward zero, saturating; NaN gives 0.
\* The result is [sat |-> TRUE] for u64::MAX, else the number n.
AsU64(x) ==
    CASE x.cls = "nan"  -> [sat |-> FALSE, n |-> 0]
      [] x.cls = "ninf" -> [sat |-> FALSE, n |-> 0]
      [] x.cls = "inf"  -> [sat |-> TRUE,  n |-> 0]
      [] x.cls = "fin"  -> [sat |-> FALSE,
                            n |-> IF x.num <= 0 THEN 0 ELSE x.num \div x.den]

\* k < t for a loop counter k (always far below u64::MAX) and a u64 t
Below(k, t) == t.sat \/ k < t.n

\* A range that counts as exhausted only after one item too many.
ExhaustedStrict(k, t) == ~t.sat /\ k > t.n

\* the range 0..t is exhausted after k items
Exhausted(k, t) == ~t.sat /\ k >= t.n

\* DateTime::to_rfc3339 on a UTC instant, for a clock that counts the seconds
\* of one day: "hh:mm:ss+00:00"
to_rfc3339(t) ==
    [hh |-> t \div 3600, mm |-> (t \div 60) % 60, ss |-> t % 60, off |-> "+00:00"]

\* The rows a store holds before the run: k earlier sessions.
PreRows(k) ==
    [j \in 1..k |-> [id |-> j, start_iso |-> to_rfc3339(j), minutes |-> Fin(25, 1)]]

\* INTEGER PRIMARY KEY AUTOINCREMENT: one more than the largest id ever used.
NextId(rs) == Len(rs) + 1

\* An observable event: what happened, whether it succeeded, and the position
\* the progress bar shows after it.
Event(e, o, p) == [ev |-> e, ok |-> o, pos |-> p]

-----------------------------------------------------------------------------
(* Initial state: the process has started, main has not run yet. *)

Init ==
    /\ pc = "open"
    /\ status = NoStatus
    /\ stderr = {}
    /\ file_exists \in BOOLEAN
    /\ has_table \in BOOLEAN
    /\ has_table => file_exists
    /\ \E k \in 0..MaxPreRows :
          /\ (k > 0) => has_table
          /\ rows = PreRows(k)
    /\ rows0 = rows
    /\ mode = "focus"
    /\ minutes = Fin(0, 1)
    /\ now = 0
    /\ clock \in {0, 59}
    /\ total_secs = [sat |-> FALSE, n |-> 0]
    /\ i = 0
    /\ pb_pos = 0
    /\ pb_finished = 0
    /\ waits = 0
    /\ log = << >>

\* The process ends with the given status, having written msg to stderr.
Exit(code, msg) ==
    /\ pc' = "exited"
    /\ status' = code
    /\ stderr' = IF msg = "" THEN stderr ELSE stderr \cup {msg}

-----------------------------------------------------------------------------
(* main *)

\* line 62: Connection::open("focus.db")?
Open ==
    /\ pc = "open"
    /\ \/ /\ file_exists' = TRUE
          /\ log' = Append(log, Event("open", TRUE, pb_pos))
          /\ pc' = "init_db"
          /\ UNCHANGED << status, stderr >>
       \/ /\ log' = Append(log, Event("open", FALSE, pb_pos))
          /\ Exit(ExitFailure, "Error: open")
          /\ UNCHANGED file_exists
    /\ UNCHANGED << has_table, rows, rows0, mode, minutes, now, clock,
                    total_secs, i, pb_pos, pb_finished, waits >>

\* init_db whose error is dropped instead of returned with `?`.
init_dbMut ==
    /\ pc = "init_db"
    /\ \/ /\ has_table' = TRUE
          /\ log' = Append(log, Event("create_table", TRUE, pb_pos))
       \/ /\ log' = Append(log, Event("create_table", FALSE, pb_pos))
          /\ UNCHANGED has_table
    /\ pc' = "parse"
    /\ UNCHANGED << status, stderr, file_exists, rows, rows0, mode, minutes,
                    now, clock, total_secs, i, pb_pos, pb_finished, waits >>

\* init_db that drops the table and creates it again.
init_dbRecreate ==
    /\ pc = "init_db"
    /\ \/ /\ has_table' = TRUE
          /\ rows' = << >>
          /\ log' = Append(log, Event("create_table", TRUE, pb_pos))
          /\ pc' = "parse"
          /\ UNCHANGED << status, stderr >>
       \/ /\ log' = Append(log, Event("create_table", FALSE, pb_pos))
          /\ Exit(ExitFailure, "Error: init_db")
          /\ UNCHANGED << has_table, rows >>
    /\ UNCHANGED << file_exists, rows0, mode, minutes, now, clock,
                    total_secs, i, pb_pos, pb_finished, waits >>

\* lines 35-46 and 63: init_db(&conn)?  CREATE TABLE IF NOT EXISTS sessions
init_db ==
    /\ pc = "init_db"
    /\ \/ /\ has_table' = TRUE
          /\ log' = Append(log, Event("create_table", TRUE, pb_pos))
          /\ pc' = "parse"
          /\ UNCHANGED << status, stderr >>
       \/ /\ log' = Append(log, Event("create_table", FALSE, pb_pos))
          /\ Exit(ExitFailure, "Error: init_db")
          /\ UNCHANGED has_table
    /\ UNCHANGED << file_exists, rows, rows0, mode, minutes, now, clock,
                    total_secs, i, pb_pos, pb_finished, waits >>

\* lines 65-68: Cli::parse(), mode, minutes, now = Utc::now()
Parse ==
    /\ pc = "parse"
    /\ \/ \E m \in Modes, v \in MinutesInputs :
             /\ mode' = m
             /\ minutes' = v
             /\ now' = clock
             /\ pc' = "setup"
             /\ UNCHANGED << status, stderr >>
       \/ /\ Exit(ExitUsage, "error: usage")
          /\ UNCHANGED << mode, minutes, now >>
    /\ UNCHANGED << file_exists, has_table, rows, rows0, clock, total_secs, i,
                    pb_pos, pb_finished, waits, log >>

\* A setup that records the session when the countdown begins.
SetupMut ==
    /\ pc = "setup"
    /\ total_secs' = AsU64(Mul60(minutes))
    /\ i' = 0
    /\ pb_pos' = 0
    /\ rows' = Append(rows, [id |-> NextId(rows), start_iso |-> to_rfc3339(now),
                             minutes |-> minutes])
    /\ log' = Append(log, Event("start", TRUE, pb_pos))
    /\ pc' = "loop"
    /\ UNCHANGED << status, stderr, file_exists, has_table, rows0, mode,
                    minutes, now, clock, pb_finished, waits >>

\* lines 70-106: banner, total_secs, spinner and progress bar at position 0
Setup ==
    /\ pc = "setup"
    /\ total_secs' = AsU64(Mul60(minutes))
    /\ i' = 0
    /\ pb_pos' = 0
    /\ log' = Append(log, Event("start", TRUE, pb_pos))
    /\ pc' = "loop"
    /\ UNCHANGED << status, stderr, file_exists, has_table, rows, rows0, mode,
                    minutes, now, clock, pb_finished, waits >>

\* A loop body that advances the bar by two per iteration.
TickByTwo ==
    /\ pc = "loop"
    /\ Below(i, total_secs)
    /\ i < MaxTicks
    /\ i' = i + 1
    /\ pb_pos' = pb_pos + 2
    /\ log' = Append(log, Event("tick", TRUE, pb_pos + 2))
    /\ pc' = "sleep"
    /\ UNCHANGED << status, stderr, file_exists, has_table, rows, rows0, mode,
                    minutes, now, clock, total_secs, pb_finished, waits >>

\* lines 109-110: the range yields its next item; pb.inc(1)
Tick ==
    /\ pc = "loop"
    /\ Below(i, total_secs)
    /\ i < MaxTicks
    /\ i' = i + 1
    /\ pb_pos' = pb_pos + 1
    /\ log' = Append(log, Event("tick", TRUE, pb_pos + 1))
    /\ pc' = "sleep"
    /\ UNCHANGED << status, stderr, file_exists, has_table, rows, rows0, mode,
                    minutes, now, clock, total_secs, pb_finished, waits >>

\* A loop body that also inserts the session row on every iteration.
SleepMut ==
    /\ pc = "sleep"
    /\ clock' = clock + 1
    /\ waits' = waits + 1
    /\ rows' = Append(rows, [id |-> NextId(rows), start_iso |-> to_rfc3339(now),
                             minutes |-> minutes])
    /\ log' = Append(log, Event("insert", TRUE, pb_pos))
    /\ pc' = "loop"
    /\ UNCHANGED << status, stderr, file_exists, has_table, rows0, mode,
                    minutes, now, total_secs, i, pb_pos, pb_finished >>

\* A loop body without the one-second sleep.
SleepSkipped ==
    /\ pc = "sleep"
    /\ pc' = "loop"
    /\ UNCHANGED << status, stderr, file_exists, has_table, rows, rows0, mode,
                    minutes, now, clock, total_secs, i, pb_pos, pb_finished,
                    waits, log >>

\* line 111: thread::sleep(Duration::from_secs(1))
Sleep ==
    /\ pc = "sleep"
    /\ clock' = clock + 1
    /\ waits' = waits + 1
    /\ pc' = "loop"
    /\ UNCHANGED << status, stderr, file_exists, has_table, rows, rows0, mode,
                    minutes, now, total_secs, i, pb_pos, pb_finished, log >>

\* A loop exit that goes on to the notification without finishing the bar.
FinishForgotten ==
    /\ pc = "loop"
    /\ Exhausted(i, total_secs)
    /\ pc' = "notify"
    /\ UNCHANGED << status, stderr, file_exists, has_table, rows, rows0, mode,
                    minutes, now, clock, total_secs, i, pb_pos, pb_finished,
                    waits, log >>

\* lines 109, 113-114: the range is exhausted; spinner and bar are finished
Finish ==
    /\ pc = "loop"
    /\ Exhausted(i, total_secs)
    /\ pb_finished' = pb_finished + 1
    /\ log' = Append(log, Event("finish", TRUE, pb_pos))
    /\ pc' = "notify"
    /\ UNCHANGED << status, stderr, file_exists, has_table, rows, rows0, mode,
                    minutes, now, clock, total_secs, i, pb_pos, waits >>

\* A notification that is shown a second time after it succeeded.
NotifyTwice ==
    /\ pc = "notify"
    /\ \/ /\ log' = log \o << Event("notify", TRUE, pb_pos),
                              Event("notify", TRUE, pb_pos) >>
          /\ pc' = "play_sound"
          /\ UNCHANGED << status, stderr >>
       \/ /\ log' = Append(log, Event("notify", FALSE, pb_pos))
          /\ Exit(ExitPanic, "panicked: unwrap on Err")
    /\ UNCHANGED << file_exists, has_table, rows, rows0, mode, minutes, now,
                    clock, total_secs, i, pb_pos, pb_finished, waits >>

\* lines 117-121: Notification::new()...show().unwrap()
Notify ==
    /\ pc = "notify"
    /\ \/ /\ log' = Append(log, Event("notify", TRUE, pb_pos))
          /\ pc' = "play_sound"
          /\ UNCHANGED << status, stderr >>
       \/ /\ log' = Append(log, Event("notify", FALSE, pb_pos))
          /\ Exit(ExitPanic, "panicked: unwrap on Err")
    /\ UNCHANGED << file_exists, has_table, rows, rows0, mode, minutes, now,
                    clock, total_secs, i, pb_pos, pb_finished, waits >>

\* A play_sound that starts playback in the background and returns at once.
play_soundMut ==
    /\ pc = "play_sound"
    /\ log' = Append(log, Event("play", TRUE, pb_pos))
    /\ pc' = "record_session"
    /\ UNCHANGED << status, stderr, file_exists, has_table, rows, rows0, mode,
                    minutes, now, clock, total_secs, i, pb_pos, pb_finished,
                    waits >>

\* line 124: main calls play_sound()
play_sound ==
    /\ pc = "play_sound"
    /\ log' = Append(log, Event("play", TRUE, pb_pos))
    /\ pc' = "output_stream"
    /\ UNCHANGED << status, stderr, file_exists, has_table, rows, rows0, mode,
                    minutes, now, clock, total_secs, i, pb_pos, pb_finished,
                    waits >>

\* The error of play_sound returned from main (`play_sound()?`).
SoundFailedMut(e) ==
    /\ log' = Append(log, Event("play_return", FALSE, pb_pos))
    /\ Exit(ExitFailure, e)

\* lines 124-126: play_sound returned Err(e); main prints it and goes on
SoundFailed(e) ==
    /\ stderr' = stderr \cup {e}
    /\ log' = Append(log, Event("play_return", FALSE, pb_pos))
    /\ pc' = "record_session"
    /\ UNCHANGED status

\* line 133: OutputStream::try_default()?
OutputStreamTryDefault ==
    /\ pc = "output_stream"
    /\ \/ /\ pc' = "sink"
          /\ UNCHANGED << status, stderr, log >>
       \/ SoundFailed("Error playing sound: no output device")
    /\ UNCHANGED << file_exists, has_table, rows, rows0, mode, minutes, now,
                    clock, total_secs, i, pb_pos, pb_finished, waits >>

\* line 135: Sink::try_new(&stream_handle)?
SinkTryNew ==
    /\ pc = "sink"
    /\ \/ /\ pc' = "decoder"
          /\ UNCHANGED << status, stderr, log >>
       \/ SoundFailed("Error playing sound: sink")
    /\ UNCHANGED << file_exists, has_table, rows, rows0, mode, minutes, now,
                    clock, total_secs, i, pb_pos, pb_finished, waits >>

\* lines 137-139: Decoder::new(cursor)?
DecoderNew ==
    /\ pc = "decoder"
    /\ \/ /\ pc' = "sleep_until_end"
          /\ UNCHANGED << status, stderr, log >>
       \/ SoundFailed("Error playing sound: decoder")
    /\ UNCHANGED << file_exists, has_table, rows, rows0, mode, minutes, now,
                    clock, total_secs, i, pb_pos, pb_finished, waits >>

\* lines 141-143: sink.append(source); sink.sleep_until_end(); Ok(())
SleepUntilEnd ==
    /\ pc = "sleep_until_end"
    /\ log' = Append(log, Event("play_return", TRUE, pb_pos))
    /\ pc' = "record_session"
    /\ UNCHANGED << status, stderr, file_exists, has_table, rows, rows0, mode,
                    minutes, now, clock, total_secs, i, pb_pos, pb_finished,
                    waits >>

\* A row stamped with the time of the insert instead of the captured start.
SessionRowAtCompletion ==
    [id |-> NextId(rows), start_iso |-> to_rfc3339(clock), minutes |-> minutes]

\* The row lines 53-56 insert.
SessionRow == [id |-> NextId(rows), start_iso |-> to_rfc3339(now), minutes |-> minutes]

\* SQLite binds a NaN as NULL, which `minutes FLOAT NOT NULL` (line 41) refuses.
InsertAccepted == minutes.cls # "nan"

\* record_session whose error is dropped: main returns Ok(()) either way.
record_sessionErrorDropped ==
    /\ pc = "record_session"
    /\ \/ /\ InsertAccepted
          /\ rows' = Append(rows, SessionRow)
          /\ log' = Append(log, Event("insert", TRUE, pb_pos))
       \/ /\ log' = Append(log, Event("insert", FALSE, pb_pos))
          /\ UNCHANGED rows
    /\ Exit(ExitSuccess, "")
    /\ UNCHANGED << file_exists, has_table, rows0, mode, minutes, now, clock,
                    total_secs, i, pb_pos, pb_finished, waits >>

\* lines 52-59 and 127-128: record_session(&conn, now, minutes)?; Ok(())
record_session ==
    /\ pc = "record_session"
    /\ \/ /\ InsertAccepted
          /\ rows' = Append(rows, SessionRow)
          /\ log' = Append(log, Event("insert", TRUE, pb_pos))
          /\ Exit(ExitSuccess, "")
       \/ /\ log' = Append(log, Event("insert", FALSE, pb_pos))
          /\ Exit(ExitFailure, "Error: record_session")
          /\ UNCHANGED rows
    /\ UNCHANGED << file_exists, has_table, rows0, mode, minutes, now, clock,
                    total_secs, i, pb_pos, pb_finished, waits >>

\* The process is terminated from outside (a signal) before main returns.
Interrupt ==
    /\ pc \notin {"exited", "killed"}
    /\ pc' = "killed"
    /\ UNCHANGED << status, stderr, file_exists, has_table, rows, rows0, mode,
                    minutes, now, clock, total_secs, i, pb_pos, pb_finished,
                    waits, log >>

Next ==
    \/ Open
    \/ init_db
    \/ Parse
    \/ Setup
    \/ Tick
    \/ Sleep
    \/ Finish
    \/ Notify
    \/ play_sound
    \/ OutputStreamTryDefault
    \/ SinkTryNew
    \/ DecoderNew
    \/ SleepUntilEnd
    \/ record_session
    \/ Interrupt

Spec == Init /\ [][Next]_vars

\* init_db(&conn) is called once more on the connection it has just
\* initialized, before main goes on.
ReInit ==
    /\ pc = "parse"
    /\ Cardinality({ k \in DOMAIN log : log[k].ev = "create_table" }) < MaxInits
    /\ pc' = "init_db"
    /\ UNCHANGED << status, stderr, file_exists, has_table, rows, rows0, mode,
                    minutes, now, clock, total_secs, i, pb_pos, pb_finished,
                    waits, log >>

NextInit ==
    \/ Next
    \/ ReInit

\* The program with init_db run up to MaxInits times before the countdown.
SpecInit == Init /\ [][NextInit]_vars

\* The steps main and play_sound take by themselves.
Step ==
    \/ Open
    \/ init_db
    \/ Parse
    \/ Setup
    \/ Tick
    \/ Sleep
    \/ Finish
    \/ Notify
    \/ play_sound
    \/ OutputStreamTryDefault
    \/ SinkTryNew
    \/ DecoderNew
    \/ SleepUntilEnd
    \/ record_session

\* The single thread of the program goes on to its next statement as long
\* as it has one: every call returns and every sleep ends.
LiveSpec == Init /\ [][Next]_vars /\ WF_vars(Step)

-----------------------------------------------------------------------------
(* Observations on a run *)

\* positions in the log of the events named e
Idx(e) == { k \in DOMAIN log : log[k].ev = e }
Count(e) == Cardinality(Idx(e))
Happened(e) == Idx(e) # {}
Failed(e) == \E k \in Idx(e) : ~log[k].ok
Succeeded(e) == \E k \in Idx(e) : log[k].ok

IsTick(e) == e.ev = "tick"
\* the ticks delivered to the progress bar, in order
TickSeq == SelectSeq(log, IsTick)

\* number of rows this run has added to the store
Appended == Len(rows) - Len(rows0)

\* main has computed total_secs and created the progress bar
Started == Happened("start")
\* elapsed_ticks < total_ticks
ElapsedBelowTotal == Started /\ Below(pb_pos, total_secs)
\* the countdown has consumed its final tick
FinalTickConsumed == Started /\ ~Below(pb_pos, total_secs)
\* the process ended by itself (main returned or panicked, or clap exited)
Exited == pc = "exited"

SoundErrors ==
    { "Error playing sound: no output device", "Error playing sound: sink",
      "Error playing sound: decoder" }

\* k is x truncated toward zero, for a finite x >= 0
IsTrunc(k, x) == k * x.den <= x.num /\ x.num < (k + 1) * x.den
\* k is x rounded to the nearest integer (halves away from zero), x >= 0
IsRound(k, x) == 2 * k * x.den - x.den <= 2 * x.num /\ 2 * x.num < 2 * k * x.den + x.den

PositiveFinite(m) == m.cls = "fin" /\ m.num > 0

-----------------------------------------------------------------------------
(* C1 *)

\* C1: if the notification fails at the end of a countdown (of a positive,
\* finite duration), the sound player is still invoked and the store append
\* is still attempted, and the process exits with status 0 when that append
\* succeeds.
C1_NotifierFailureNotFatal ==
    (Exited /\ PositiveFinite(minutes) /\ Failed("notify")) =>
        /\ Happened("play")
        /\ Happened("insert")
        /\ Succeeded("insert") => status = ExitSuccess

-----------------------------------------------------------------------------
(* C2 *)

\* C2: if play_sound fails at any of its three fallible steps, the failure is
\* written to standard error, control goes on to the store append (nothing
\* but an external interruption keeps the append from being attempted), the
\* append comes after the player has returned, and the exit status is 0
\* exactly when the append succeeds.
C2_SoundFailureNotFatal ==
    Failed("play_return") =>
        /\ stderr \cap SoundErrors # {}
        /\ pc \in {"record_session", "exited", "killed"}
        /\ Exited =>
              /\ Count("insert") = 1
              /\ \A k \in Idx("insert"), j \in Idx("play_return") : j < k
              /\ Succeeded("insert") <=> status = ExitSuccess
              /\ Failed("insert") <=> status = ExitFailure

\* The decoder failed, the row was still appended and the process exited 0.
C2_Witness ==
    /\ Exited
    /\ status = ExitSuccess
    /\ "Error playing sound: decoder" \in stderr
    /\ Failed("play_return")
    /\ Succeeded("insert")
    /\ Appended = 1

-----------------------------------------------------------------------------
(* C3 *)

\* C3: a run appends at most one row, and none while elapsed_ticks is below
\* total_ticks; a run interrupted before the final tick has appended none.
C3_PersistedAtMostOnceAfterCountdown ==
    /\ Appended \in {0, 1}
    /\ Count("insert") <= 1
    /\ ElapsedBelowTotal => Appended = 0
    /\ (pc = "killed" /\ ~FinalTickConsumed) => Appended = 0

\* A run interrupted in the middle of its countdown.
C3_Witness ==
    /\ pc = "killed"
    /\ ElapsedBelowTotal
    /\ pb_pos >= 1
    /\ waits >= 1
    /\ Appended = 0

-----------------------------------------------------------------------------
(* C4 *)

\* C4: a session is appended if and only if the countdown reached its final
\* tick: a run (of a positive, finite duration) that consumed its final tick
\* and ended by itself has appended exactly one row, and a run that did not
\* reach the final tick has appended none.
C4_AppendedIffFinalTick ==
    /\ (Exited /\ PositiveFinite(minutes) /\ FinalTickConsumed) => Appended = 1
    /\ (pc \in {"exited", "killed"} /\ ~FinalTickConsumed) => Appended = 0

-----------------------------------------------------------------------------
(* C5 *)

\* C5: a failure of the store (open, schema creation or append) ends the
\* process at once with a non-zero status; after a failed open or schema
\* creation no countdown, notification or sound has happened.
C5_StoreFailureFatal ==
    /\ (Failed("open") \/ Failed("create_table") \/ Failed("insert")) =>
          /\ Exited
          /\ status \notin {NoStatus, ExitSuccess}
    /\ (Failed("open") \/ Failed("create_table")) =>
          /\ ~Started
          /\ pb_pos = 0
          /\ Count("tick") = 0
          /\ Count("notify") = 0
          /\ Count("play") = 0

\* The append failed after a countdown whose notification and sound succeeded.
C5_Witness ==
    /\ Exited
    /\ Failed("insert")
    /\ status = ExitFailure
    /\ pb_pos >= 1
    /\ Succeeded("notify")
    /\ Succeeded("play_return")
    /\ Appended = 0

-----------------------------------------------------------------------------
(* C6 *)

\* C6: the notification comes before the sound player is invoked, the sound
\* player has returned before the append, and each of the three is invoked
\* only after the last tick: with the bar at total_secs and no tick after it.
C6_CompletionOrder ==
    /\ \A k \in Idx("play") : \E j \in Idx("notify") : j < k
    /\ \A k \in Idx("play_return") : \E j \in Idx("play") : j < k
    /\ \A k \in Idx("insert") : \E j \in Idx("play_return") : j < k
    /\ \A k \in Idx("notify") \cup Idx("play") \cup Idx("insert") :
          /\ ~total_secs.sat
          /\ log[k].pos = total_secs.n
          /\ \E j \in Idx("start") : j < k
          /\ \A j \in Idx("tick") : j < k

\* A run of at least two ticks that notified, played to the end and appended.
C6_Witness ==
    /\ Exited
    /\ status = ExitSuccess
    /\ pb_pos >= 2
    /\ Succeeded("notify")
    /\ Succeeded("play_return")
    /\ Succeeded("insert")

-----------------------------------------------------------------------------
(* C7 *)

\* C7 as claimed: for finite minutes > 0 the number of ticks delivered by the
\* end of the countdown is round(minutes * 60), delivered as 1, 2, ..., total.
C7_TicksEqualRound ==
    /\ \A j \in DOMAIN TickSeq : TickSeq[j].pos = j
    /\ (Happened("finish") /\ PositiveFinite(minutes)) =>
          IsRound(Len(TickSeq), Mul60(minutes))

\* C7 as amended: for finite minutes > 0 the number of ticks delivered by the
\* end of the countdown is minutes * 60 truncated toward zero, and the ticks
\* are delivered as positions 1, 2, ..., total without duplicates or gaps.
C7_TicksEqualTruncation ==
    /\ \A j \in DOMAIN TickSeq : TickSeq[j].pos = j
    /\ Len(TickSeq) = pb_pos
    /\ (Happened("finish") /\ PositiveFinite(minutes)) =>
          IsTrunc(Len(TickSeq), Mul60(minutes))

\* A finished countdown of 59.7 seconds: 59 ticks.
C7_Witness ==
    /\ Happened("finish")
    /\ minutes = Fin(199, 200)
    /\ Len(TickSeq) = 59
    /\ TickSeq[59].pos = 59

-----------------------------------------------------------------------------
(* C8 *)

\* C8: a non-positive or non-finite minutes value is rejected before any
\* countdown starts: no tick, no notification, no sound, no append, and a
\* non-zero exit status.
C8_InvalidMinutesRejected ==
    (Started /\ ~PositiveFinite(minutes)) =>
        /\ Count("tick") = 0
        /\ Count("notify") = 0
        /\ Count("play") = 0
        /\ Count("insert") = 0
        /\ Exited => status # ExitSuccess

-----------------------------------------------------------------------------
(* C9 *)

\* C9: for minutes = 0 no tick is delivered, and the run that ends by itself
\* has invoked the notifier, the sound player and the store append.
C9_ZeroMinutesCompletes ==
    (Started /\ minutes = Fin(0, 1)) =>
        /\ Count("tick") = 0
        /\ Exited =>
              /\ Count("notify") = 1
              /\ Count("play") = 1
              /\ Count("insert") = 1

-----------------------------------------------------------------------------
(* C10 *)

\* C10 as claimed: while elapsed_ticks < total_ticks the run has not touched
\* the store: it has not opened it, created the schema or appended.
C10_StoreUntouchedBeforeCompletion ==
    ElapsedBelowTotal =>
        /\ ~Happened("open")
        /\ ~Happened("create_table")
        /\ ~Happened("insert")

\* C10 as amended: the store is opened and its schema created at startup,
\* before the countdown begins; the append is the only store operation that
\* waits for the countdown: until the loop has ended no append has been
\* attempted and the rows of the store are those the run found.
C10_OnlyAppendWaitsForCountdown ==
    /\ Started =>
          /\ Succeeded("open")
          /\ Succeeded("create_table")
          /\ has_table
          /\ \A k \in Idx("open") \cup Idx("create_table"), j \in Idx("start") : k < j
    /\ ~Happened("finish") =>
          /\ ~Happened("insert")
          /\ rows = rows0

\* In the middle of a countdown: store opened, schema created, nothing appended.
C10_Witness ==
    /\ pc = "sleep"
    /\ ElapsedBelowTotal
    /\ pb_pos >= 1
    /\ Succeeded("open")
    /\ Succeeded("create_table")
    /\ ~Happened("insert")
    /\ rows = rows0

-----------------------------------------------------------------------------
(* C11 *)

\* the row most recently inserted into the store
LastRow == rows[Len(rows)]

\* C11: in a run with a positive finite duration in which the notification,
\* the sound and the append all succeed, each of the three is invoked exactly
\* once, exactly one row is added, carrying the minutes of the command line,
\* and the exit status is 0; for minutes = 1 exactly 60 ticks, in the order
\* 1..60, come before the notification.
C11_SuccessfulRun ==
    (/\ Exited
     /\ PositiveFinite(minutes)
     /\ Succeeded("notify")
     /\ Succeeded("play_return")
     /\ Succeeded("insert")) =>
        /\ Count("notify") = 1
        /\ Count("play") = 1
        /\ Count("play_return") = 1
        /\ Count("insert") = 1
        /\ Appended = 1
        /\ rows = Append(rows0, LastRow)
        /\ LastRow.minutes = minutes
        /\ status = ExitSuccess
        /\ minutes = Fin(1, 1) =>
              /\ Len(TickSeq) = 60
              /\ \A j \in 1..60 : TickSeq[j].pos = j
              /\ \A k \in Idx("tick"), n \in Idx("notify") : k < n

\* The one-minute run in which everything succeeded.
C11_Witness ==
    /\ Exited
    /\ status = ExitSuccess
    /\ minutes = Fin(1, 1)
    /\ mode = "focus"
    /\ pb_pos = 60
    /\ Succeeded("notify")
    /\ Succeeded("play_return")
    /\ Succeeded("insert")
    /\ LastRow.minutes = Fin(1, 1)

-----------------------------------------------------------------------------
(* C12 *)

\* C12: however many times init_db has run on a store, the rows the store
\* held are unchanged (none altered, removed or duplicated) until the append,
\* and a successful append after it adds exactly one row after them.
C12_InitIdempotent ==
    /\ ~Happened("insert") => rows = rows0
    /\ Succeeded("create_table") => has_table
    /\ Succeeded("insert") =>
          /\ Len(rows) = Len(rows0) + 1
          /\ SubSeq(rows, 1, Len(rows0)) = rows0
          /\ LastRow.id \notin { rows0[j].id : j \in DOMAIN rows0 }

\* init_db has run three times on a store that held two rows, and the append
\* after it succeeded.
C12_Witness ==
    /\ Count("create_table") >= 3
    /\ \A k \in Idx("create_table") : log[k].ok
    /\ Len(rows0) = 2
    /\ Succeeded("insert")
    /\ Len(rows) = 3
    /\ SubSeq(rows, 1, 2) = rows0

-----------------------------------------------------------------------------
(* C13 *)

\* C13: the progress bar is finished at most once, and exactly once by the
\* time the notification is invoked; the finish comes after every tick (with
\* the bar at total_secs) and before the notification.
C13_FinishedOnce ==
    /\ pb_finished = Count("finish")
    /\ pb_finished <= 1
    /\ \A f \in Idx("finish") :
          /\ \A k \in Idx("tick") : k < f
          /\ log[f].pos = total_secs.n
          /\ Len(TickSeq) = total_secs.n
    /\ \A n \in Idx("notify") : \E f \in Idx("finish") : f < n
    /\ pc \in {"notify", "play_sound", "output_stream", "sink", "decoder",
               "sleep_until_end", "record_session"} => pb_finished = 1
    /\ (Exited /\ Started) => pb_finished = 1

\* The bar has been finished after three ticks and the notification shown.
C13_Witness ==
    /\ pb_finished = 1
    /\ pb_pos = 3
    /\ Len(TickSeq) = 3
    /\ Succeeded("notify")
    /\ pc = "play_sound"

-----------------------------------------------------------------------------
(* C14 *)

\* C14: the start time is the clock reading taken before the first tick
\* (the current time less the seconds slept since) and stays that; the row
\* appended carries that start time, not the time of completion, and the
\* minutes of the command line.
C14_StartTimeAndMinutesKept ==
    /\ Started => now = clock - waits
    /\ Succeeded("insert") =>
          /\ LastRow.start_iso = to_rfc3339(clock - waits)
          /\ waits > 0 => LastRow.start_iso # to_rfc3339(clock)
          /\ LastRow.minutes = minutes
          /\ \A k \in Idx("start") : \A t \in Idx("tick") : k < t

\* A 59.7 s session started at second 59: the row says 00:00:59 and 199/200.
C14_Witness ==
    /\ Succeeded("insert")
    /\ minutes = Fin(199, 200)
    /\ waits = 59
    /\ clock = 118
    /\ LastRow.start_iso = [hh |-> 0, mm |-> 0, ss |-> 59, off |-> "+00:00"]
    /\ LastRow.minutes = Fin(199, 200)

-----------------------------------------------------------------------------
(* C15 *)

\* C15: always 0 <= elapsed_ticks <= total_ticks; a step leaves elapsed_ticks
\* alone or adds one to it; and the countdown loop is left for the completion
\* actions only with elapsed_ticks = total_ticks.
C15_ElapsedWithinTotal ==
    /\ [](/\ 0 <= pb_pos
          /\ i = pb_pos
          /\ total_secs.sat \/ pb_pos <= total_secs.n
          /\ Happened("finish") => (~total_secs.sat /\ pb_pos = total_secs.n))
    /\ [][/\ pb_pos' = pb_pos \/ pb_pos' = pb_pos + 1
          /\ (pc = "loop" /\ pc' = "notify") =>
                (~total_secs.sat /\ pb_pos = total_secs.n /\ pb_pos' = pb_pos)]_vars

\* The loop has just been left with the bar at its total of three.
C15_Witness ==
    /\ pc = "notify"
    /\ ~total_secs.sat
    /\ total_secs.n = 3
    /\ pb_pos = 3
    /\ Happened("finish")

-----------------------------------------------------------------------------
(* C16 *)

\* C16 as claimed: whenever the position of the bar is k, at least k
\* one-second waits have completed.
C16_TickAfterItsSecond ==
    pb_pos <= waits

\* C16 as amended: a tick is delivered at the start of its second: whenever
\* the position of the bar is k >= 1, at least k - 1 one-second waits have
\* completed (exactly k - 1 while the k-th wait is under way, k after it),
\* and the bar is finished only after total_secs waits have completed.
C16_TickAtStartOfItsSecond ==
    /\ waits <= pb_pos
    /\ pb_pos <= waits + 1
    /\ pc = "sleep" => pb_pos = waits + 1
    /\ pc = "loop" => pb_pos = waits
    /\ Happened("finish") => (waits = pb_pos /\ waits = total_secs.n)

\* The second tick has been delivered while only one wait has completed.
C16_Witness ==
    /\ pc = "sleep"
    /\ pb_pos = 2
    /\ waits = 1

-----------------------------------------------------------------------------
(* C17 *)

-----------------------------------------------------------------------------
(* C18 *)

\* C18: every run whose total_secs is not saturated ends: it reaches an exit
\* status or is terminated from outside; it does not stay in the countdown or
\* in the completion actions for ever.
C18_Terminates ==
    <>(pc \in {"exited", "killed"} \/ (Started /\ total_secs.sat))

\* A one-minute run that went through all sixty waits and returned.
C18_Witness ==
    /\ Exited
    /\ status = ExitSuccess
    /\ ~total_secs.sat
    /\ total_secs.n = 60
    /\ waits = 60
    /\ Happened("finish")

====
